---- MODULE Spec2Model ----
(***************************************************************************)
(* Orca: the check-suite handler (HandleCheckSuite and its helpers), the   *)
(* resolution predicate AllMatchesAreResolved and the push path            *)
(* (HandlePush, RemediateFromPush), as state machines over the calls they  *)
(* make to the hosting platform and to the scanner.                        *)
(***************************************************************************)
EXTENDS Integers, Sequences, FiniteSets, TLC

\* ---------------------------------------------------------------- bounds
MaxPRs == 2
MaxCommits == 2
MaxFiles == 2
MaxQueries == 2
MaxResults == 2
MaxMatches == 2
MaxPushCommits == 2
MaxOpenPRs == 1
MaxWorkers == 3
MaxEvents == 2

\* ------------------------------------------------------------- constants
checkRunStatusInProgress == "in_progress"
checkRunStatusCompleted == "completed"
checkRunConclusionSuccess == "success"
checkRunConclusionSkipped == "skipped"
checkRunConclusionFailure == "failure"

VARIABLES
    prs,          \* checkSuitePayload.CheckSuite.PullRequests: per pull request,
                  \* whether a scan of its commits reports an unresolved match
    pc,           \* position of the HandleCheckSuite invocation
    prIdx,        \* index of the pull request the loop is at
    commits,      \* number of commits ListCommits returned for that pull request
    commitIdx,    \* index of the commit the inner loop is at
    fileQueries,  \* the []GitHubFileQuery built for that pull request
    commitWithFiles,  \* the file statuses of the last GetCommit response
    pending,      \* arguments of the updateCheckRun call about to be issued
    checkRun,     \* the external check-run resource
    calls,        \* collaborator calls issued so far, in order
    scanResults,  \* input of AllMatchesAreResolved
    answer,       \* <<b>> once AllMatchesAreResolved returned b, <<>> before
    push,         \* pushPayload: the commits of the push, oldest first
    commitScanResults,  \* what Scanner.CheckPush returned to HandlePush
    issues,       \* tracking issues that exist on the platform
    deadlinePassed,  \* the deadline of the event went by during a collaborator call
    fileStateZero,   \* the zero value of caching.FileState in this build
    handlers,     \* two concurrent HandleCheckSuite invocations: their locals
    checkRuns,    \* the check runs of the platform, by ID, for those invocations
    session,      \* ContentCache: the queries of one scanning session
    cache,        \* ContentCache: per key "empty", "fetching" or "cached"
    fetches,      \* FetchFileContent calls issued, per key
    workers,      \* the scanner's workers: position and query of each
    source,       \* which handler source file is running
    queue,        \* inbound events not yet dispatched
    event,        \* the event being handled and what was done for it
    alive,        \* the process is running
    handled       \* the events whose handler returned, with what was done

vars == <<prs, pc, prIdx, commits, commitIdx, fileQueries, commitWithFiles, pending,
          checkRun,
          calls, scanResults, answer, push, commitScanResults, issues,
          deadlinePassed, fileStateZero, handlers, checkRuns, session, cache, fetches, workers,
          source, queue, event, alive, handled>>

checkSuiteVars == <<prs, prIdx, commits, commitIdx, fileQueries, commitWithFiles,
                    pending, checkRun>>
resolvedVars == <<scanResults, answer>>
pushVars == <<push, commitScanResults, issues>>
twoVars == <<handlers, checkRuns>>
cacheVars == <<session, cache, fetches, workers>>
eventVars == <<source, queue, event, alive, handled>>
restVars == <<deadlinePassed, fileStateZero, twoVars, cacheVars, eventVars>>

\* ------------------------------------------------------------ data model
NoUpdate == [status |-> "none", conclusion |-> "none", summary |-> "none", text |-> "none"]
NoCheckRun == [status |-> "none", conclusion |-> "none"]

PlatformFileStatus == {"added", "modified", "removed", "renamed"}
\* commitWithFiles.Files: the statuses of the files of one commit, in order.
FileLists == UNION {[1..n -> PlatformFileStatus] : n \in 0..MaxFiles}

\* A Match is modelled by its Resolved flag, a CommitScanResult by its Matches.
MatchLists == UNION {[1..n -> [Resolved : BOOLEAN]] : n \in 0..MaxMatches}
ResultLists == UNION {[1..n -> [Matches : MatchLists]] : n \in 0..MaxResults}

HasUnresolvedMatch(results) ==
    \E i \in 1..Len(results) :
        \E j \in 1..Len(results[i].Matches) : ~results[i].Matches[j].Resolved

\* ------------------------------------------------- AllMatchesAreResolved
\* The inner loop over result.Matches, from match j on: "found" is TRUE when
\* the loop hits  if !match.Resolved { return false }.
RECURSIVE UnresolvedFrom(_, _)
UnresolvedFrom(matches, j) ==
    IF j > Len(matches) THEN FALSE
    ELSE IF ~matches[j].Resolved THEN TRUE
    ELSE UnresolvedFrom(matches, j + 1)

\* Mutant of ResolvedFrom: return true sits inside the outer loop, so only the
\* first result is inspected.
ResolvedFrom_firstResultOnly(results, i) ==
    IF i > Len(results) THEN TRUE
    ELSE ~UnresolvedFrom(results[i].Matches, 1)

\* The outer loop over scanResults, from result i on; falls through to
\* return true.
RECURSIVE ResolvedFrom(_, _)
ResolvedFrom(results, i) ==
    IF i > Len(results) THEN TRUE
    ELSE IF UnresolvedFrom(results[i].Matches, 1) THEN FALSE
    ELSE ResolvedFrom(results, i + 1)

AllMatchesAreResolved(results) == ResolvedFrom(results, 1)

\* --------------------------------------------------------- check-run I/O
updateCheckRun(status, conclusion, summary, text) ==
    [status |-> status, conclusion |-> conclusion, summary |-> summary, text |-> text]

\* Mutant of handleFailure: the update is sent with the in-progress status.
handleFailure_inProgress(summary) ==
    updateCheckRun(checkRunStatusInProgress, checkRunConclusionFailure, summary, "none")

handleFailure(summary) ==
    updateCheckRun(checkRunStatusCompleted, checkRunConclusionFailure, summary, "none")

completeCheckRun(conclusion, summary, text) ==
    updateCheckRun(checkRunStatusCompleted, conclusion, summary, text)

\* Mutant of FileStateZeroValues: the zero value of caching.FileState may be
\* a value of its own, none of the three constants.
FileStateZeroValues_ownValue ==
    {"FileAdded", "FileModified", "FileRemoved", "FileStateZero"}

\* caching.FileState is declared outside this code; the data model gives it
\* the three values Added, Modified and Removed. Its zero value is then one of
\* the three constants; which one is fixed by the declaration.
FileStateZeroValues == {"FileAdded", "FileModified", "FileRemoved"}

\* switch *file.Status: no default branch, so any other status leaves the
\* zero value of caching.FileState.
\* Mutant of FileStatus: a removed file is queried like a modified one.
FileStatus_removedAsModified(status) ==
    CASE status = "added" -> "FileAdded"
      [] status = "modified" -> "FileModified"
      [] status = "removed" -> "FileModified"
      [] OTHER -> fileStateZero

FileStatus(status) ==
    CASE status = "added" -> "FileAdded"
      [] status = "modified" -> "FileModified"
      [] status = "removed" -> "FileRemoved"
      [] OTHER -> fileStateZero

Call(op, arg, ok) == [op |-> op, arg |-> arg, ok |-> ok]

\* github.CreateCheckRunOptions as HandleCheckSuite fills it.
CreateCheckRunOptions ==
    [Name |-> "Orca Checks", HeadSHA |-> "CheckSuite.HeadSHA",
     Status |-> checkRunStatusInProgress]

\* -------------------------------------------- parts a run does not use
CheckSuiteIdle ==
    /\ prs = <<>>
    /\ prIdx = 0
    /\ commits = 0
    /\ commitIdx = 0
    /\ fileQueries = <<>>
    /\ commitWithFiles = <<>>
    /\ pending = NoUpdate
    /\ checkRun = NoCheckRun

ResolvedIdle == scanResults = <<>> /\ answer = <<>>

PushIdle == push = <<>> /\ commitScanResults = <<>> /\ issues = <<>>

TwoIdle == handlers = <<>> /\ checkRuns = <<>>

CacheIdle == session = <<>> /\ cache = <<>> /\ fetches = <<>> /\ workers = <<>>

EventsIdle ==
    /\ source = "none"
    /\ queue = <<>>
    /\ event = <<>>
    /\ alive = TRUE
    /\ handled = <<>>

\* No file query is built: the zero value plays no part.
FileStateIdle == fileStateZero = "unused"

RestIdle == deadlinePassed = FALSE /\ FileStateIdle /\ TwoIdle /\ CacheIdle /\ EventsIdle

\* ------------------------------------------------------ HandleCheckSuite
Init ==
    /\ prs \in UNION {[1..n -> BOOLEAN] : n \in 0..MaxPRs}
    /\ pc = "CreateCheckRun"
    /\ prIdx = 0
    /\ commits = 0
    /\ commitIdx = 0
    /\ fileQueries = <<>>
    /\ commitWithFiles = <<>>
    /\ pending = NoUpdate
    /\ checkRun = NoCheckRun
    /\ calls = <<>>
    /\ scanResults = <<>>
    /\ answer = <<>>
    /\ push = <<>>
    /\ commitScanResults = <<>>
    /\ issues = <<>>
    /\ deadlinePassed = FALSE
    /\ fileStateZero \in FileStateZeroValues
    /\ TwoIdle
    /\ CacheIdle
    /\ EventsIdle

\* Mutant of CreateCheckRun: a suite without pull requests falls through to
\* the "all is well" completion.
CreateCheckRun_noSkip ==
    /\ pc = "CreateCheckRun"
    /\ \E ok \in BOOLEAN :
        /\ calls' = Append(calls, Call("CreateCheckRun", CreateCheckRunOptions, ok))
        /\ IF ~ok
           THEN /\ pc' = "done"
                /\ UNCHANGED <<checkRun, prIdx, pending>>
           ELSE /\ checkRun' = [status |-> checkRunStatusInProgress, conclusion |-> "none"]
                /\ IF Len(prs) > 0
                   THEN /\ pc' = "ListCommits"
                        /\ prIdx' = 1
                        /\ UNCHANGED pending
                   ELSE /\ pc' = "UpdateCheckRun"
                        /\ pending' = completeCheckRun(checkRunConclusionSuccess,
                                                       "No issues detected", "none")
                        /\ UNCHANGED prIdx
    /\ UNCHANGED <<prs, commits, commitIdx, fileQueries, commitWithFiles, resolvedVars, pushVars, restVars>>

\* Mutant of CreateCheckRun: the error branch lacks its return.
CreateCheckRun_continueOnError ==
    /\ pc = "CreateCheckRun"
    /\ \E ok \in BOOLEAN :
        /\ calls' = Append(calls, Call("CreateCheckRun", CreateCheckRunOptions, ok))
        /\ checkRun' = IF ok
                       THEN [status |-> checkRunStatusInProgress, conclusion |-> "none"]
                       ELSE checkRun
        /\ IF Len(prs) > 0
           THEN /\ pc' = "ListCommits"
                /\ prIdx' = 1
                /\ UNCHANGED pending
           ELSE /\ pc' = "UpdateCheckRun"
                /\ pending' = completeCheckRun(checkRunConclusionSkipped,
                                               "No Pull Requests found", "none")
                /\ UNCHANGED prIdx
    /\ UNCHANGED <<prs, commits, commitIdx, fileQueries, commitWithFiles, resolvedVars, pushVars, restVars>>

CreateCheckRun ==
    /\ pc = "CreateCheckRun"
    /\ \E ok \in BOOLEAN :
        /\ calls' = Append(calls, Call("CreateCheckRun", CreateCheckRunOptions, ok))
        /\ IF ~ok
           THEN /\ pc' = "done"
                /\ UNCHANGED <<checkRun, prIdx, pending>>
           ELSE /\ checkRun' = [status |-> checkRunStatusInProgress, conclusion |-> "none"]
                /\ IF Len(prs) > 0
                   THEN /\ pc' = "ListCommits"
                        /\ prIdx' = 1
                        /\ UNCHANGED pending
                   ELSE /\ pc' = "UpdateCheckRun"
                        /\ pending' = completeCheckRun(checkRunConclusionSkipped,
                                                       "No Pull Requests found", "none")
                        /\ UNCHANGED prIdx
    /\ UNCHANGED <<prs, commits, commitIdx, fileQueries, commitWithFiles, resolvedVars, pushVars, restVars>>

\* Mutant of ListCommits: the error branch returns without handleFailure.
ListCommits_noHandleFailure ==
    /\ pc = "ListCommits"
    /\ \E ok \in BOOLEAN :
        /\ calls' = Append(calls, Call("ListCommits", prIdx, ok))
        /\ IF ~ok
           THEN /\ pc' = "done"
                /\ UNCHANGED <<commits, commitIdx, fileQueries, commitWithFiles, pending>>
           ELSE /\ \E n \in 0..MaxCommits :
                     /\ commits' = n
                     /\ pc' = IF n = 0 THEN "CheckFileContentFromQueries" ELSE "GetCommit"
                /\ commitIdx' = 1
                /\ fileQueries' = <<>>
                /\ commitWithFiles' = <<>>
                /\ UNCHANGED pending
    /\ UNCHANGED <<prs, prIdx, checkRun, resolvedVars, pushVars, restVars>>

\* PullRequests.ListCommits for the pull request at prIdx.
ListCommits ==
    /\ pc = "ListCommits"
    /\ \E ok \in BOOLEAN :
        /\ calls' = Append(calls, Call("ListCommits", prIdx, ok))
        /\ IF ~ok
           THEN /\ pending' = handleFailure("Failed to get commits from pull request")
                /\ pc' = "UpdateCheckRun"
                /\ UNCHANGED <<commits, commitIdx, fileQueries, commitWithFiles>>
           ELSE /\ \E n \in 0..MaxCommits :
                     /\ commits' = n
                     /\ pc' = IF n = 0 THEN "CheckFileContentFromQueries" ELSE "GetCommit"
                /\ commitIdx' = 1
                /\ fileQueries' = <<>>
                /\ commitWithFiles' = <<>>
                /\ UNCHANGED pending
    /\ UNCHANGED <<prs, prIdx, checkRun, resolvedVars, pushVars, restVars>>

\* Mutant of CommitFileQueries: the files of a commit are taken last to first.
CommitFileQueries_reversed(pr, commit, files) ==
    [f \in 1..Len(files) |->
        [CommitSHA |-> <<pr, commit>>, FileName |-> Len(files) + 1 - f,
         Status |-> FileStatus(files[Len(files) + 1 - f])]]

\* The queries one commit contributes: one per file of commitWithFiles.Files,
\* in the order of the files.
CommitFileQueries(pr, commit, files) ==
    [f \in 1..Len(files) |->
        [CommitSHA |-> <<pr, commit>>, FileName |-> f, Status |-> FileStatus(files[f])]]

\* Mutant of GetCommit: the error branch skips the commit and goes on.
GetCommit_continueOnError ==
    /\ pc = "GetCommit"
    /\ \E ok \in BOOLEAN :
        /\ calls' = Append(calls, Call("GetCommit", <<prIdx, commitIdx>>, ok))
        /\ IF ~ok
           THEN UNCHANGED <<fileQueries, commitWithFiles>>
           ELSE \E files \in FileLists :
                   /\ Len(fileQueries) + Len(files) <= MaxQueries
                   /\ commitWithFiles' = files
                   /\ fileQueries' = fileQueries \o CommitFileQueries(prIdx, commitIdx, files)
        /\ commitIdx' = commitIdx + 1
        /\ pc' = IF commitIdx = commits
                 THEN "CheckFileContentFromQueries" ELSE "GetCommit"
        /\ UNCHANGED pending
    /\ UNCHANGED <<prs, prIdx, commits, checkRun, resolvedVars, pushVars, restVars>>

\* Repositories.GetCommit for the commit at commitIdx, then the loop over its
\* files.
GetCommit ==
    /\ pc = "GetCommit"
    /\ \E ok \in BOOLEAN :
        /\ calls' = Append(calls, Call("GetCommit", <<prIdx, commitIdx>>, ok))
        /\ IF ~ok
           THEN /\ pending' = handleFailure("Failed to get commit from pull request")
                /\ pc' = "UpdateCheckRun"
                /\ UNCHANGED <<commitIdx, fileQueries, commitWithFiles>>
           ELSE /\ \E files \in FileLists :
                     /\ Len(fileQueries) + Len(files) <= MaxQueries
                     /\ commitWithFiles' = files
                     /\ fileQueries' = fileQueries \o CommitFileQueries(prIdx, commitIdx, files)
                /\ commitIdx' = commitIdx + 1
                /\ pc' = IF commitIdx = commits
                         THEN "CheckFileContentFromQueries" ELSE "GetCommit"
                /\ UNCHANGED pending
    /\ UNCHANGED <<prs, prIdx, commits, checkRun, resolvedVars, pushVars, restVars>>

\* Scanner.CheckFileContentFromQueries is called with fileQueries; the list is
\* not read again by the handler.
CheckFileContentFromQueries ==
    /\ pc = "CheckFileContentFromQueries"
    /\ pc' = "commitScanResults"
    /\ fileQueries' = <<>>
    /\ commitWithFiles' = <<>>
    /\ UNCHANGED <<prs, prIdx, commits, commitIdx, pending, checkRun, calls, resolvedVars, pushVars, restVars>>

\* What the scan of one pull request returned, as recorded with the call.
ScanOutcome(pr, results) ==
    [pr |-> pr, results |-> Len(results), unresolved |-> HasUnresolvedMatch(results)]

\* The conclusion chosen at  if AllMatchesAreResolved(commitScanResults).
ConclusionFor(results) ==
    IF AllMatchesAreResolved(results)
    THEN checkRunConclusionSuccess ELSE checkRunConclusionFailure

\* Mutant of HandleCommitScanResults: the "all is well" completion sits inside
\* the loop, so the first clean pull request ends the evaluation.
HandleCommitScanResults_firstClean ==
    /\ pc = "commitScanResults"
    /\ \/ /\ calls' = Append(calls, Call("CheckFileContentFromQueries", prIdx, FALSE))
          /\ pending' = handleFailure("Failed to scan commits from pull request")
          /\ pc' = "UpdateCheckRun"
       \/ \E results \in ResultLists :
          /\ HasUnresolvedMatch(results) = prs[prIdx]
          /\ calls' = Append(calls, Call("CheckFileContentFromQueries",
                                         ScanOutcome(prIdx, results), TRUE))
          /\ IF Len(results) > 0
             THEN IF ConclusionFor(results) = checkRunConclusionSuccess
                  THEN /\ pc' = "CreateComment"
                       /\ UNCHANGED pending
                  ELSE /\ pc' = "UpdateCheckRun"
                       /\ pending' = completeCheckRun(ConclusionFor(results),
                                                      "BuildMessage", "report")
             ELSE /\ pending' = completeCheckRun(checkRunConclusionSuccess,
                                                 "No issues detected", "none")
                  /\ pc' = "UpdateCheckRun"
    /\ UNCHANGED <<prs, prIdx, commits, commitIdx, fileQueries, commitWithFiles, checkRun,
                   resolvedVars, pushVars, restVars>>

\* Mutant of HandleCommitScanResults: results with an unresolved match are
\* noted and the loop goes on to the next pull request.
HandleCommitScanResults_continueAfterResults ==
    /\ pc = "commitScanResults"
    /\ \/ /\ calls' = Append(calls, Call("CheckFileContentFromQueries", prIdx, FALSE))
          /\ pending' = handleFailure("Failed to scan commits from pull request")
          /\ pc' = "UpdateCheckRun"
          /\ UNCHANGED prIdx
       \/ \E results \in ResultLists :
          /\ HasUnresolvedMatch(results) = prs[prIdx]
          /\ calls' = Append(calls, Call("CheckFileContentFromQueries",
                                         ScanOutcome(prIdx, results), TRUE))
          /\ IF Len(results) > 0 /\ ConclusionFor(results) = checkRunConclusionSuccess
             THEN /\ pc' = "CreateComment"
                  /\ UNCHANGED <<pending, prIdx>>
             ELSE IF prIdx < Len(prs)
             THEN /\ prIdx' = prIdx + 1
                  /\ pc' = "ListCommits"
                  /\ pending' = IF Len(results) > 0
                                THEN completeCheckRun(ConclusionFor(results),
                                                      "BuildMessage", "report")
                                ELSE pending
             ELSE /\ pending' = IF Len(results) > 0
                                THEN completeCheckRun(ConclusionFor(results),
                                                      "BuildMessage", "report")
                                ELSE completeCheckRun(checkRunConclusionSuccess,
                                                      "No issues detected", "none")
                  /\ pc' = "UpdateCheckRun"
                  /\ UNCHANGED prIdx
    /\ UNCHANGED <<prs, commits, commitIdx, fileQueries, commitWithFiles, checkRun, resolvedVars, pushVars, restVars>>

\* The scanner returns (commitScanResults, err); the handler branches on them.
HandleCommitScanResults ==
    /\ pc = "commitScanResults"
    /\ \/ /\ calls' = Append(calls, Call("CheckFileContentFromQueries", prIdx, FALSE))
          /\ pending' = handleFailure("Failed to scan commits from pull request")
          /\ pc' = "UpdateCheckRun"
          /\ UNCHANGED prIdx
       \/ \E results \in ResultLists :
          /\ HasUnresolvedMatch(results) = prs[prIdx]
          /\ calls' = Append(calls, Call("CheckFileContentFromQueries",
                                         ScanOutcome(prIdx, results), TRUE))
          /\ IF Len(results) > 0
             THEN /\ IF ConclusionFor(results) = checkRunConclusionSuccess
                     THEN /\ pc' = "CreateComment"
                          /\ UNCHANGED pending
                     ELSE /\ pc' = "UpdateCheckRun"
                          /\ pending' = completeCheckRun(ConclusionFor(results),
                                                         "BuildMessage", "report")
                  /\ UNCHANGED prIdx
             ELSE IF prIdx < Len(prs)
             THEN /\ prIdx' = prIdx + 1
                  /\ pc' = "ListCommits"
                  /\ UNCHANGED pending
             ELSE /\ pending' = completeCheckRun(checkRunConclusionSuccess,
                                                 "No issues detected", "none")
                  /\ pc' = "UpdateCheckRun"
                  /\ UNCHANGED prIdx
    /\ UNCHANGED <<prs, commits, commitIdx, fileQueries, commitWithFiles, checkRun, resolvedVars, pushVars, restVars>>

\* Mutant of CreateComment: the error of the call is ignored.
CreateComment_ignoreError ==
    /\ pc = "CreateComment"
    /\ \E ok \in BOOLEAN :
        /\ calls' = Append(calls, Call("CreateComment", prIdx, ok))
        /\ pending' = completeCheckRun(checkRunConclusionSuccess, "BuildMessage", "report")
    /\ pc' = "UpdateCheckRun"
    /\ UNCHANGED <<prs, prIdx, commits, commitIdx, fileQueries, commitWithFiles, checkRun,
                   resolvedVars, pushVars, restVars>>

\* Mutant of CreateComment: the return after handleFailure is missing, so the
\* failure update is followed by the completion with the chosen conclusion.
CreateComment_noReturn ==
    /\ pc = "CreateComment"
    /\ \/ /\ calls' = Append(calls, Call("CreateComment", prIdx, TRUE))
          /\ UNCHANGED checkRun
       \/ \E ok \in BOOLEAN :
          /\ calls' = calls \o
                <<Call("CreateComment", prIdx, FALSE),
                  Call("UpdateCheckRun",
                       handleFailure("Failed to reply to Pull Request"), ok)>>
          /\ checkRun' = IF ok
                         THEN [status |-> checkRunStatusCompleted,
                               conclusion |-> checkRunConclusionFailure]
                         ELSE checkRun
    /\ pending' = completeCheckRun(checkRunConclusionSuccess, "BuildMessage", "report")
    /\ pc' = "UpdateCheckRun"
    /\ UNCHANGED <<prs, prIdx, commits, commitIdx, fileQueries, commitWithFiles,
                   resolvedVars, pushVars, restVars>>

\* Issues.CreateComment: the reminder on the pull request at prIdx.
CreateComment ==
    /\ pc = "CreateComment"
    /\ \E ok \in BOOLEAN :
        /\ calls' = Append(calls, Call("CreateComment", prIdx, ok))
        /\ pending' = IF ok
                      THEN completeCheckRun(checkRunConclusionSuccess,
                                            "BuildMessage", "report")
                      ELSE handleFailure("Failed to reply to Pull Request")
    /\ pc' = "UpdateCheckRun"
    /\ UNCHANGED <<prs, prIdx, commits, commitIdx, fileQueries, commitWithFiles, checkRun, resolvedVars, pushVars, restVars>>

\* Mutant of UpdateCheckRun: a failed update is tried again.
UpdateCheckRun_retry ==
    /\ pc = "UpdateCheckRun"
    /\ \E ok \in BOOLEAN :
        /\ calls' = Append(calls, Call("UpdateCheckRun", pending, ok))
        /\ checkRun' = IF ok
                       THEN [status |-> pending.status, conclusion |-> pending.conclusion]
                       ELSE checkRun
        /\ pc' = IF ok THEN "done" ELSE "UpdateCheckRun"
    /\ UNCHANGED <<prs, prIdx, commits, commitIdx, fileQueries, commitWithFiles, pending,
                   resolvedVars, pushVars, restVars>>

\* Checks.UpdateCheckRun with the pending arguments; an error is only logged.
UpdateCheckRun ==
    /\ pc = "UpdateCheckRun"
    /\ \E ok \in BOOLEAN :
        /\ calls' = Append(calls, Call("UpdateCheckRun", pending, ok))
        /\ checkRun' = IF ok
                       THEN [status |-> pending.status, conclusion |-> pending.conclusion]
                       ELSE checkRun
    /\ pc' = "done"
    /\ UNCHANGED <<prs, prIdx, commits, commitIdx, fileQueries, commitWithFiles, pending, resolvedVars, pushVars, restVars>>

Next ==
    \/ CreateCheckRun
    \/ ListCommits
    \/ GetCommit
    \/ CheckFileContentFromQueries
    \/ HandleCommitScanResults
    \/ CreateComment
    \/ UpdateCheckRun

Spec == Init /\ [][Next]_vars

\* ------------------------------------------- the deadline of the event
\* Every platform call is made with context.Background() and the scanner call
\* takes no context: the deadline of the event goes by while a call of the
\* evaluation is outstanding, and nothing in the handler observes it.
DeadlinePasses ==
    /\ pc \in {"ListCommits", "GetCommit", "CheckFileContentFromQueries",
               "commitScanResults"}
    /\ ~deadlinePassed
    /\ deadlinePassed' = TRUE
    /\ UNCHANGED <<pc, checkSuiteVars, calls, resolvedVars, pushVars, fileStateZero,
                   twoVars, cacheVars, eventVars>>

NextDeadline ==
    \/ Next
    \/ DeadlinePasses

SpecDeadline == Init /\ [][NextDeadline]_vars

\* ------------------------------ two concurrent HandleCheckSuite invocations
\* The same PayloadHandler serves two check-suite events at once. Each
\* invocation has its own locals (handlers[i]); the platform's check runs
\* (checkRuns, indexed by ID) are the only state both touch. The file lists
\* are local to an invocation and are left out here. saw, sent and, in a check
\* run, owner, completions and by are bookkeeping for the properties.
Invocations == {1, 2}

Payloads == UNION {[1..n -> BOOLEAN] : n \in 0..MaxPRs}

NewInvocation(payload) ==
    [pc |-> "CreateCheckRun", prs |-> payload, prIdx |-> 0, commits |-> 0,
     commitIdx |-> 0, pending |-> NoUpdate, checkRun |-> 0, saw |-> "none", sent |-> 0]

\* What a scan can return, as far as the handler looks at it: whether there
\* are results, the conclusion chosen for them, and whether a match is
\* unresolved.
ScanKinds ==
    {[results |-> Len(r) > 0, conclusion |-> ConclusionFor(r),
      unresolved |-> HasUnresolvedMatch(r)] : r \in ResultLists}

InitTwo ==
    /\ handlers \in [Invocations -> {NewInvocation(p) : p \in Payloads}]
    /\ checkRuns = <<>>
    /\ pc = "concurrent"
    /\ calls = <<>>
    /\ CheckSuiteIdle
    /\ ResolvedIdle
    /\ PushIdle
    /\ deadlinePassed = FALSE
    /\ FileStateIdle
    /\ CacheIdle
    /\ EventsIdle

\* The invocation fails: handleFailure, then return.
Fail(h, summary) ==
    [h EXCEPT !.pending = handleFailure(summary), !.pc = "UpdateCheckRun", !.saw = "error"]

TwoUnchanged ==
    UNCHANGED <<pc, calls, checkSuiteVars, resolvedVars, pushVars, deadlinePassed,
                fileStateZero, cacheVars, eventVars>>

T_CreateCheckRun(i) ==
    LET h == handlers[i] IN
    /\ h.pc = "CreateCheckRun"
    /\ \/ /\ handlers' = [handlers EXCEPT ![i] = [h EXCEPT !.pc = "done"]]
          /\ UNCHANGED checkRuns
       \/ /\ checkRuns' = Append(checkRuns,
                [status |-> CreateCheckRunOptions.Status, conclusion |-> "none",
                 owner |-> i, completions |-> 0, by |-> {}])
          /\ handlers' = [handlers EXCEPT ![i] =
                IF Len(h.prs) > 0
                THEN [h EXCEPT !.checkRun = Len(checkRuns) + 1, !.pc = "ListCommits",
                               !.prIdx = 1]
                ELSE [h EXCEPT !.checkRun = Len(checkRuns) + 1, !.pc = "UpdateCheckRun",
                               !.pending = completeCheckRun(checkRunConclusionSkipped,
                                               "No Pull Requests found", "none")]]
    /\ TwoUnchanged

T_ListCommits(i) ==
    LET h == handlers[i] IN
    /\ h.pc = "ListCommits"
    /\ \/ handlers' = [handlers EXCEPT ![i] =
                          Fail(h, "Failed to get commits from pull request")]
       \/ \E n \in 0..MaxCommits :
             handlers' = [handlers EXCEPT ![i] =
                 [h EXCEPT !.commits = n, !.commitIdx = 1,
                           !.pc = IF n = 0 THEN "CheckFileContentFromQueries"
                                  ELSE "GetCommit"]]
    /\ UNCHANGED checkRuns
    /\ TwoUnchanged

T_GetCommit(i) ==
    LET h == handlers[i] IN
    /\ h.pc = "GetCommit"
    /\ \/ handlers' = [handlers EXCEPT ![i] =
                          Fail(h, "Failed to get commit from pull request")]
       \/ handlers' = [handlers EXCEPT ![i] =
              [h EXCEPT !.commitIdx = h.commitIdx + 1,
                        !.pc = IF h.commitIdx = h.commits
                               THEN "CheckFileContentFromQueries" ELSE "GetCommit"]]
    /\ UNCHANGED checkRuns
    /\ TwoUnchanged

T_CheckFileContentFromQueries(i) ==
    LET h == handlers[i] IN
    /\ h.pc = "CheckFileContentFromQueries"
    /\ \/ handlers' = [handlers EXCEPT ![i] =
                          Fail(h, "Failed to scan commits from pull request")]
       \/ \E k \in ScanKinds :
          /\ k.unresolved = h.prs[h.prIdx]
          /\ handlers' = [handlers EXCEPT ![i] =
                IF k.results
                THEN IF k.conclusion = checkRunConclusionSuccess
                     THEN [h EXCEPT !.pc = "CreateComment", !.saw = "resolved"]
                     ELSE [h EXCEPT !.pc = "UpdateCheckRun", !.saw = "unresolved",
                                    !.pending = completeCheckRun(k.conclusion,
                                                    "BuildMessage", "report")]
                ELSE IF h.prIdx < Len(h.prs)
                THEN [h EXCEPT !.prIdx = h.prIdx + 1, !.pc = "ListCommits"]
                ELSE [h EXCEPT !.pc = "UpdateCheckRun", !.saw = "clean",
                               !.pending = completeCheckRun(checkRunConclusionSuccess,
                                               "No issues detected", "none")]]
    /\ UNCHANGED checkRuns
    /\ TwoUnchanged

T_CreateComment(i) ==
    LET h == handlers[i] IN
    /\ h.pc = "CreateComment"
    /\ \/ handlers' = [handlers EXCEPT ![i] =
                          Fail(h, "Failed to reply to Pull Request")]
       \/ handlers' = [handlers EXCEPT ![i] =
              [h EXCEPT !.pc = "UpdateCheckRun",
                        !.pending = completeCheckRun(checkRunConclusionSuccess,
                                        "BuildMessage", "report")]]
    /\ UNCHANGED checkRuns
    /\ TwoUnchanged

\* The update a check run receives.
Updated(run, update, i) ==
    [run EXCEPT !.status = update.status, !.conclusion = update.conclusion,
                !.completions = run.completions + 1, !.by = run.by \cup {i}]

\* Mutant of T_UpdateCheckRun: the check run is kept in a field of the shared
\* PayloadHandler, so the update goes to the check run created last.
T_UpdateCheckRun_sharedCheckRun(i) ==
    LET h == handlers[i] IN
    /\ h.pc = "UpdateCheckRun"
    /\ \/ UNCHANGED checkRuns
       \/ checkRuns' = [checkRuns EXCEPT ![Len(checkRuns)] = Updated(@, h.pending, i)]
    /\ handlers' = [handlers EXCEPT ![i] =
          [h EXCEPT !.pc = "done", !.sent = h.sent + 1, !.prIdx = 0, !.commits = 0,
                    !.commitIdx = 0]]
    /\ TwoUnchanged

\* updateCheckRun with *checkRun.ID of the invocation's own checkRun; then the
\* handler returns and its loop variables are gone.
T_UpdateCheckRun(i) ==
    LET h == handlers[i] IN
    /\ h.pc = "UpdateCheckRun"
    /\ \/ UNCHANGED checkRuns
       \/ checkRuns' = [checkRuns EXCEPT ![h.checkRun] = Updated(@, h.pending, i)]
    /\ handlers' = [handlers EXCEPT ![i] =
          [h EXCEPT !.pc = "done", !.sent = h.sent + 1, !.prIdx = 0, !.commits = 0,
                    !.commitIdx = 0]]
    /\ TwoUnchanged

NextTwo ==
    \E i \in Invocations :
        \/ T_CreateCheckRun(i)
        \/ T_ListCommits(i)
        \/ T_GetCommit(i)
        \/ T_CheckFileContentFromQueries(i)
        \/ T_CreateComment(i)
        \/ T_UpdateCheckRun(i)

SpecTwo == InitTwo /\ [][NextTwo]_vars

\* ------------------------------------------ ContentCache, one scan session
\* The session evaluates the files of one commit. session holds, per file,
\* the status the platform reported and the FileQuery the handler built from
\* it. Each worker makes one Get call; the calls interleave. cache maps a key
\* to its entry, fetches is the log of FetchFileContent calls.
SessionOf(files) ==
    [f \in 1..Len(files) |->
        [reported |-> files[f], query |-> CommitFileQueries(1, 1, files)[f]]]

Key(query) == <<query.CommitSHA, query.FileName>>

NewWorker == [pc |-> "idle", q |-> 0, result |-> "none"]

InitCache ==
    /\ fileStateZero \in FileStateZeroValues
    /\ \E files \in FileLists : Len(files) > 0 /\ session = SessionOf(files)
    /\ cache = <<>>
    /\ fetches = <<>>
    /\ workers = [w \in 1..MaxWorkers |-> NewWorker]
    /\ pc = "session"
    /\ calls = <<>>
    /\ CheckSuiteIdle
    /\ ResolvedIdle
    /\ PushIdle
    /\ deadlinePassed = FALSE
    /\ TwoIdle
    /\ EventsIdle

CacheUnchanged ==
    UNCHANGED <<pc, calls, session, checkSuiteVars, resolvedVars, pushVars,
                deadlinePassed, fileStateZero, twoVars, eventVars>>

\* Mutant of Lookup: only stored entries count, a fetch in flight is a miss.
Lookup_ignoreInFlight(key) ==
    IF key \in DOMAIN cache /\ cache[key] # "inflight" THEN "hit" ELSE "miss"

\* What the cache holds for a key.
Lookup(key) ==
    IF key \notin DOMAIN cache THEN "miss"
    ELSE IF cache[key] = "inflight" THEN "inflight"
    ELSE "hit"

Store(key, entry) ==
    [k \in DOMAIN cache \cup {key} |-> IF k = key THEN entry ELSE cache[k]]

\* Get(query), up to the point where it returns or has to wait.
Get(w) ==
    /\ workers[w].pc = "idle"
    /\ \E q \in 1..Len(session) :
        LET query == session[q].query
            key == Key(query) IN
        IF query.Status = "FileRemoved"
        THEN /\ workers' = [workers EXCEPT ![w] =
                               [pc |-> "returned", q |-> q, result |-> "absent"]]
             /\ UNCHANGED <<cache, fetches>>
        ELSE IF Lookup(key) = "hit"
        THEN /\ workers' = [workers EXCEPT ![w] =
                               [pc |-> "returned", q |-> q, result |-> cache[key]]]
             /\ UNCHANGED <<cache, fetches>>
        ELSE IF Lookup(key) = "inflight"
        THEN /\ workers' = [workers EXCEPT ![w] =
                               [pc |-> "waiting", q |-> q, result |-> "none"]]
             /\ UNCHANGED <<cache, fetches>>
        ELSE /\ workers' = [workers EXCEPT ![w] =
                               [pc |-> "fetching", q |-> q, result |-> "none"]]
             /\ cache' = Store(key, "inflight")
             /\ fetches' = Append(fetches, key)
    /\ CacheUnchanged

\* FetchFileContent returns to the worker that issued it; the result is stored.
FetchFileContent(w) ==
    /\ workers[w].pc = "fetching"
    /\ \E result \in {"content", "error"} :
        /\ cache' = Store(Key(session[workers[w].q].query), result)
        /\ workers' = [workers EXCEPT ![w].pc = "returned", ![w].result = result]
    /\ UNCHANGED fetches
    /\ CacheUnchanged

\* A worker that joined a fetch in flight returns once the result is stored.
Join(w) ==
    LET key == Key(session[workers[w].q].query) IN
    /\ workers[w].pc = "waiting"
    /\ Lookup(key) # "inflight"
    /\ workers' = [workers EXCEPT ![w].pc = "returned",
                      ![w].result = IF key \in DOMAIN cache THEN cache[key] ELSE "none"]
    /\ UNCHANGED <<cache, fetches>>
    /\ CacheUnchanged

NextCache ==
    \E w \in 1..MaxWorkers :
        \/ Get(w)
        \/ FetchFileContent(w)
        \/ Join(w)

SpecCache == InitCache /\ [][NextCache]_vars

\* ------------------------------------------- the best-effort event handlers
\* One process handles the events of queue one after the other. source names
\* the version of the handlers the process was built from: they differ in how
\* an error is logged. event is the invocation in progress (<<>> between
\* events), handled the invocations that returned, alive whether the process
\* is still running. scans and remediations count the calls of an invocation.
Sources == {"payloadHandler.go", "part_000", "remediator.go"}

EventKinds ==
    {"push", "issue", "issue_comment", "pull_request", "pull_request_review",
     "pull_request_review_comment"}

EventQueues ==
    UNION {[1..n -> EventKinds] : n \in 1..MaxEvents}

\* log.Fatal(err) of the standard library prints and calls os.Exit(1);
\* log.Fatal().Err(err) and log.Error().Err(err) of zerolog build an event that
\* is never sent, and the handler goes on to its return statement.
ExitsOnError(src) == src = "payloadHandler.go"

NewEvent(id, kind) ==
    [id |-> id, kind |-> kind,
     pc |-> IF kind = "push" THEN "PullRequestsList" ELSE "Scan",
     scans |-> 0, remediations |-> 0, scan |-> "none", matches |-> FALSE,
     remediation |-> "none"]

InitEvents ==
    /\ source \in Sources
    /\ \E kinds \in EventQueues :
          queue = [n \in 1..Len(kinds) |-> [id |-> n, kind |-> kinds[n]]]
    /\ event = <<>>
    /\ alive = TRUE
    /\ handled = <<>>
    /\ pc = "events"
    /\ calls = <<>>
    /\ CheckSuiteIdle
    /\ ResolvedIdle
    /\ PushIdle
    /\ deadlinePassed = FALSE
    /\ FileStateIdle
    /\ TwoIdle
    /\ CacheIdle

EventsUnchanged ==
    UNCHANGED <<pc, calls, source, checkSuiteVars, resolvedVars, pushVars,
                deadlinePassed, fileStateZero, twoVars, cacheVars>>

\* The handler returns: the invocation is over.
Return(e) ==
    /\ handled' = Append(handled, [e EXCEPT !.pc = "returned"])
    /\ event' = <<>>
    /\ UNCHANGED alive

\* The error branch of a handler: the logging call, then return.
LogAndReturn(e) ==
    IF ExitsOnError(source)
    THEN /\ alive' = FALSE
         /\ event' = <<[e EXCEPT !.pc = "exited"]>>
         /\ UNCHANGED handled
    ELSE Return(e)

\* The next event is routed to its handler.
Dispatch ==
    /\ alive
    /\ event = <<>>
    /\ queue # <<>>
    /\ event' = <<NewEvent(Head(queue).id, Head(queue).kind)>>
    /\ queue' = Tail(queue)
    /\ UNCHANGED <<alive, handled>>
    /\ EventsUnchanged

\* HandlePush: an open pull request for the pushed branch ends the handler.
E_PullRequestsList ==
    /\ alive
    /\ event # <<>>
    /\ event[1].pc = "PullRequestsList"
    /\ \E open \in 0..MaxOpenPRs :
          IF open > 0
          THEN Return(event[1])
          ELSE /\ event' = <<[event[1] EXCEPT !.pc = "Scan"]>>
               /\ UNCHANGED <<alive, handled>>
    /\ UNCHANGED queue
    /\ EventsUnchanged

\* The handler's one Scanner call (CheckPush, CheckIssue, ...), and HasMatches.
E_Scan ==
    /\ alive
    /\ event # <<>>
    /\ event[1].pc = "Scan"
    /\ LET e == [event[1] EXCEPT !.scans = @ + 1] IN
       \/ LogAndReturn([e EXCEPT !.scan = "error"])
       \/ \E hasMatches \in BOOLEAN :
             IF hasMatches
             THEN /\ event' = <<[e EXCEPT !.scan = "ok", !.matches = TRUE,
                                          !.pc = "Remediate"]>>
                  /\ UNCHANGED <<alive, handled>>
             ELSE Return([e EXCEPT !.scan = "ok"])
    /\ UNCHANGED queue
    /\ EventsUnchanged

\* Mutant of E_Remediate: a failed remediation is tried again.
E_Remediate_retryOnError ==
    /\ alive
    /\ event # <<>>
    /\ event[1].pc = "Remediate"
    /\ LET e == [event[1] EXCEPT !.remediations = @ + 1] IN
       \/ /\ event' = <<[e EXCEPT !.remediation = "error"]>>
          /\ UNCHANGED <<alive, handled>>
       \/ Return([e EXCEPT !.remediation = "ok"])
    /\ UNCHANGED queue
    /\ EventsUnchanged

\* matchHandler.HandleMatchesFrom...(payload, result).
E_Remediate ==
    /\ alive
    /\ event # <<>>
    /\ event[1].pc = "Remediate"
    /\ LET e == [event[1] EXCEPT !.remediations = @ + 1] IN
       \/ LogAndReturn([e EXCEPT !.remediation = "error"])
       \/ Return([e EXCEPT !.remediation = "ok"])
    /\ UNCHANGED queue
    /\ EventsUnchanged

NextEvents ==
    \/ Dispatch
    \/ E_PullRequestsList
    \/ E_Scan
    \/ E_Remediate

SpecEvents == InitEvents /\ [][NextEvents]_vars

\* ------------------------------------- AllMatchesAreResolved on its own
InitResolved ==
    /\ scanResults \in ResultLists
    /\ answer = <<>>
    /\ pc = "AllMatchesAreResolved"
    /\ prs = <<>>
    /\ prIdx = 0
    /\ commits = 0
    /\ commitIdx = 0
    /\ fileQueries = <<>>
    /\ commitWithFiles = <<>>
    /\ pending = NoUpdate
    /\ checkRun = NoCheckRun
    /\ calls = <<>>
    /\ push = <<>>
    /\ commitScanResults = <<>>
    /\ issues = <<>>
    /\ RestIdle

\* One call of AllMatchesAreResolved(scanResults); the slice is only ranged
\* over.
CallAllMatchesAreResolved ==
    /\ pc = "AllMatchesAreResolved"
    /\ answer' = <<AllMatchesAreResolved(scanResults)>>
    /\ scanResults' = scanResults
    /\ pc' = "returned"
    /\ UNCHANGED <<checkSuiteVars, calls, pushVars, restVars>>

NextResolved == CallAllMatchesAreResolved

SpecResolved == InitResolved /\ [][NextResolved]_vars

\* ------------------------------------------------------------- push path
Paths == {"secret.pem", "notes.txt"}
PushFileStatus == {"added", "modified", "removed"}
\* A commit of the push changes one file; secret says whether the content it
\* leaves matches a content pattern.
PushCommits == [path : Paths, status : PushFileStatus, secret : BOOLEAN]
Pushes == UNION {[1..n -> PushCommits] : n \in 0..MaxPushCommits}

\* PatternStore.MatchPath: the path pattern of the store flags *.pem files.
MatchPath(path) == path = "secret.pem"

LastTouching(p, path) ==
    CHOOSE i \in 1..Len(p) :
        /\ p[i].path = path
        /\ \A j \in 1..Len(p) : p[j].path = path => j <= i

\* Resolved: the offense is absent at the head of the pushed range.
PathResolved(p, path) == p[LastTouching(p, path)].status = "removed"
ContentResolved(p, path) ==
    \/ p[LastTouching(p, path)].status = "removed"
    \/ ~p[LastTouching(p, path)].secret

\* The scan of commit i: path matching always, content matching for added and
\* modified files only.
CommitScanResult(p, i) ==
    [Commit |-> i,
     FileMatches |->
        IF MatchPath(p[i].path)
        THEN <<[Path |-> p[i].path, Resolved |-> PathResolved(p, p[i].path)]>>
        ELSE <<>>,
     ContentMatches |->
        IF p[i].status # "removed" /\ p[i].secret
        THEN <<[Path |-> p[i].path, Resolved |-> ContentResolved(p, p[i].path)]>>
        ELSE <<>>]

HasMatches(result) == result.FileMatches # <<>> \/ result.ContentMatches # <<>>

\* Scanner.CheckPush: commits in push order, one result per commit with matches.
CheckPush(p) == SelectSeq([i \in 1..Len(p) |-> CommitScanResult(p, i)], HasMatches)

\* fmt.Sprintf("%d", n) for n >= 0: the decimal digits of n, most significant
\* first.
DigitChars == <<"0", "1", "2", "3", "4", "5", "6", "7", "8", "9">>
RECURSIVE Itoa(_)
Itoa(n) ==
    IF n < 10 THEN <<DigitChars[n + 1]>>
    ELSE Itoa(n \div 10) \o <<DigitChars[(n % 10) + 1]>>

\* Mutant of IssueTitle: the plural title is chosen from one result on.
IssueTitle_pluralFromOne(results) ==
    IF Len(results) > 0
    THEN <<"Potentially sensitive data found in ", Itoa(Len(results)), " commits">>
    ELSE <<"Potentially sensitive data found in a commit">>

\* RemediateFromPush, the title: plural with the count for more than one result.
IssueTitle(results) ==
    IF Len(results) > 1
    THEN <<"Potentially sensitive data found in ", Itoa(Len(results)), " commits">>
    ELSE <<"Potentially sensitive data found in a commit">>

\* RemediateFromPush, the lines one result adds to the body.
ResultLines(result) ==
    <<<<"Introduced in", result.Commit>>>>
    \o (IF Len(result.FileMatches) > 0
        THEN <<<<"Potentially sensitive files:">>>>
             \o [j \in 1..Len(result.FileMatches) |-> <<"-", result.FileMatches[j].Path>>]
        ELSE <<>>)
    \o (IF Len(result.ContentMatches) > 0
        THEN <<<<"Files containing potentially sensitive data:">>>>
             \o [j \in 1..Len(result.ContentMatches) |->
                    <<"###", result.ContentMatches[j].Path>>]
        ELSE <<>>)

\* Mutant of BodyFrom: a result whose matches are all resolved is left out of
\* the report.
RECURSIVE BodyFrom_skipResolved(_, _)
BodyFrom_skipResolved(results, i) ==
    IF i > Len(results) THEN <<>>
    ELSE (IF /\ \A j \in 1..Len(results[i].FileMatches) :
                     results[i].FileMatches[j].Resolved
             /\ \A j \in 1..Len(results[i].ContentMatches) :
                     results[i].ContentMatches[j].Resolved
          THEN <<>> ELSE ResultLines(results[i]))
         \o BodyFrom_skipResolved(results, i + 1)

\* RemediateFromPush, the loop over results from result i on.
RECURSIVE BodyFrom(_, _)
BodyFrom(results, i) ==
    IF i > Len(results) THEN <<>>
    ELSE ResultLines(results[i]) \o BodyFrom(results, i + 1)

IssueBody(results) ==
    <<<<"Potentially sensitive data has recently been pushed to this repository.">>>>
    \o BodyFrom(results, 1)

InitPush ==
    /\ push \in Pushes
    /\ commitScanResults = <<>>
    /\ issues = <<>>
    /\ RestIdle
    /\ pc = "PullRequests.List"
    /\ calls = <<>>
    /\ prs = <<>>
    /\ prIdx = 0
    /\ commits = 0
    /\ commitIdx = 0
    /\ fileQueries = <<>>
    /\ commitWithFiles = <<>>
    /\ pending = NoUpdate
    /\ checkRun = NoCheckRun
    /\ scanResults = <<>>
    /\ answer = <<>>

\* The PullRequests.List call as logged: arg is the length of the list the
\* call returned (nil when it failed), open the number of open pull requests
\* the branch has on the platform.
ListCall(open, ok) ==
    [op |-> "PullRequests.List", arg |-> IF ok THEN open ELSE 0, ok |-> ok,
     open |-> open]

\* Mutant of PullRequestsList: the error of the call is checked and ends the
\* handler.
PullRequestsList_returnOnError ==
    /\ pc = "PullRequests.List"
    /\ \E ok \in BOOLEAN : \E open \in 0..MaxOpenPRs :
        /\ calls' = Append(calls, ListCall(open, ok))
        /\ pc' = IF ~ok \/ ListCall(open, ok).arg > 0 THEN "done" ELSE "CheckPush"
    /\ UNCHANGED <<checkSuiteVars, resolvedVars, pushVars, restVars>>

\* HandlePush: the open pull requests of the pushed branch are listed; the
\* error of the call is not looked at, and a non-empty list ends the handler.
PullRequestsList ==
    /\ pc = "PullRequests.List"
    /\ \E ok \in BOOLEAN : \E open \in 0..MaxOpenPRs :
        /\ calls' = Append(calls, ListCall(open, ok))
        /\ pc' = IF ListCall(open, ok).arg > 0 THEN "done" ELSE "CheckPush"
    /\ UNCHANGED <<checkSuiteVars, resolvedVars, pushVars, restVars>>

\* HandlePush: Scanner.CheckPush; an error is logged and the handler returns.
ScannerCheckPush ==
    /\ pc = "CheckPush"
    /\ \/ /\ calls' = Append(calls, Call("CheckPush", 0, FALSE))
          /\ pc' = "done"
          /\ UNCHANGED commitScanResults
       \/ /\ calls' = Append(calls, Call("CheckPush", Len(CheckPush(push)), TRUE))
          /\ commitScanResults' = CheckPush(push)
          /\ pc' = IF Len(CheckPush(push)) > 0 THEN "HandleMatchesFromPush" ELSE "done"
    /\ UNCHANGED <<checkSuiteVars, resolvedVars, restVars, push, issues>>

\* The Issues.Create calls and the issues of a remediation that opens one
\* issue per result, from result i on.
RECURSIVE PerCommitCalls(_, _, _)
PerCommitCalls(results, i, ok) ==
    IF i > Len(results) THEN <<>>
    ELSE <<Call("Issues.Create",
                [title |-> IssueTitle(<<results[i]>>),
                 body |-> IssueBody(<<results[i]>>)], ok)>>
         \o PerCommitCalls(results, i + 1, ok)

\* Mutant of RemediateFromPush: Issues.Create sits inside the loop over the
\* results.
RemediateFromPush_perCommit ==
    /\ pc = "HandleMatchesFromPush"
    /\ \E ok \in BOOLEAN :
        /\ calls' = calls \o PerCommitCalls(commitScanResults, 1, ok)
        /\ issues' = IF ok
                     THEN issues \o [i \in 1..Len(commitScanResults) |->
                                        PerCommitCalls(commitScanResults, 1, ok)[i].arg]
                     ELSE issues
    /\ pc' = "done"
    /\ UNCHANGED <<checkSuiteVars, resolvedVars, restVars, push, commitScanResults>>

\* HandleMatchesFromPush hands the results to RemediateFromPush, which builds
\* title and body and issues Issues.Create once.
RemediateFromPush ==
    /\ pc = "HandleMatchesFromPush"
    /\ \E ok \in BOOLEAN :
        /\ calls' = Append(calls, Call("Issues.Create",
                                       [title |-> IssueTitle(commitScanResults),
                                        body |-> IssueBody(commitScanResults)], ok))
        /\ issues' = IF ok
                     THEN Append(issues, [title |-> IssueTitle(commitScanResults),
                                          body |-> IssueBody(commitScanResults)])
                     ELSE issues
    /\ pc' = "done"
    /\ UNCHANGED <<checkSuiteVars, resolvedVars, restVars, push, commitScanResults>>

NextPush ==
    \/ PullRequestsList
    \/ ScannerCheckPush
    \/ RemediateFromPush

SpecPush == InitPush /\ [][NextPush]_vars

\* ------------------------------------------------- reading the call log
IndicesOf(op) == {i \in 1..Len(calls) : calls[i].op = op}
Failed(op) == {i \in IndicesOf(op) : ~calls[i].ok}
Succeeded(op) == {i \in IndicesOf(op) : calls[i].ok}
Updates == IndicesOf("UpdateCheckRun")
Created == Succeeded("CreateCheckRun") # {}
FetchOps == {"ListCommits", "GetCommit", "CheckFileContentFromQueries"}
Conclusions == {checkRunConclusionSuccess, checkRunConclusionFailure,
                checkRunConclusionSkipped}
\* Successful scans that returned results whose matches are all resolved.
ResolvedScans ==
    {i \in Succeeded("CheckFileContentFromQueries") :
        calls[i].arg.results > 0 /\ ~calls[i].arg.unresolved}
\* Successful scans that returned no results.
CleanScans ==
    {i \in Succeeded("CheckFileContentFromQueries") : calls[i].arg.results = 0}
Returned == pc = "done"

\* C1: when CreateCheckRun succeeded, the handler issues exactly one
\* UpdateCheckRun call before it returns, on every path, and that call
\* completes the check run; never zero calls and never two.
C1_ExactlyOneUpdate ==
    /\ Cardinality(Updates) <= 1
    /\ (Returned /\ Created) =>
          /\ Cardinality(Updates) = 1
          /\ \A i \in Updates :
                /\ i = Len(calls)
                /\ calls[i].arg.status = checkRunStatusCompleted
                /\ calls[i].ok => checkRun.status = checkRunStatusCompleted
    /\ ~Created => Updates = {}

\* C1 witness: the handler returned through the CreateComment error path,
\* having issued its one update.
C1_Witness ==
    /\ Returned
    /\ Failed("CreateComment") # {}
    /\ Cardinality(Updates) = 1

\* C2: if any pull request of the suite carries an unresolved match, a
\* completed check run has conclusion Failure, for a suite with several pull
\* requests too.
C2_UnresolvedMeansFailure ==
    (checkRun.status = checkRunStatusCompleted /\ \E p \in 1..Len(prs) : prs[p]) =>
        checkRun.conclusion = checkRunConclusionFailure

\* C3: with zero associated pull requests the check run is completed with
\* conclusion Skipped and no ListCommits, GetCommit, scan or CreateComment
\* call is issued.
C3_NoPullRequestsSkipped ==
    Len(prs) = 0 =>
        /\ \A i \in 1..Len(calls) : calls[i].op \in {"CreateCheckRun", "UpdateCheckRun"}
        /\ \A i \in Updates : calls[i].arg.conclusion = checkRunConclusionSkipped
        /\ checkRun.conclusion \in {"none", checkRunConclusionSkipped}
        /\ (Returned /\ Created) => Updates # {}

\* C3 witness: a suite without pull requests whose check run was completed.
C3_Witness ==
    /\ Returned
    /\ Len(prs) = 0
    /\ checkRun.status = checkRunStatusCompleted

\* C4 as stated: whenever a scan returned results whose matches are all
\* resolved, the update has conclusion Success and a reminder comment was
\* created on that pull request before it.
C4_ResolvedMeansSuccessAndReminder ==
    (Returned /\ ResolvedScans # {}) =>
        \A s \in ResolvedScans :
            /\ \A u \in Updates : calls[u].arg.conclusion = checkRunConclusionSuccess
            /\ \E c \in Succeeded("CreateComment") :
                  /\ calls[c].arg = calls[s].arg.pr
                  /\ \A u \in Updates : c < u

\* C4 amended: after a scan that returned results whose matches are all
\* resolved the next call is CreateComment on that pull request, before any
\* update; the update is Success with the match report if the comment was
\* created and Failure without text if it was not; and a Success that carries
\* a match report is never written without a successfully created comment.
C4_ReminderThenSuccess ==
    /\ \A s \in ResolvedScans :
          /\ Updates # {} => s + 1 \in IndicesOf("CreateComment")
          /\ s + 1 \in IndicesOf("CreateComment") => calls[s + 1].arg = calls[s].arg.pr
          /\ Returned => s + 1 \in IndicesOf("CreateComment")
    /\ \A u \in Updates :
          /\ (calls[u].arg.conclusion = checkRunConclusionSuccess
                /\ calls[u].arg.text # "none") =>
                (u > 1 /\ u - 1 \in Succeeded("CreateComment"))
          /\ (u > 1 /\ u - 1 \in Succeeded("CreateComment")) =>
                /\ calls[u].arg.conclusion = checkRunConclusionSuccess
                /\ calls[u].arg.text = "report"
          /\ (u > 1 /\ u - 1 \in Failed("CreateComment")) =>
                /\ calls[u].arg.conclusion = checkRunConclusionFailure
                /\ calls[u].arg.text = "none"

\* C4 witness: all matches resolved, the comment created, Success written.
C4_Witness ==
    /\ Returned
    /\ ResolvedScans # {}
    /\ Succeeded("CreateComment") # {}
    /\ checkRun.conclusion = checkRunConclusionSuccess

\* C5: with at least one pull request and every scan returning no results the
\* update is Success with summary "No issues detected" and no text, no comment
\* is posted, and that summary is written only after every pull request was
\* scanned.
C5_AllCleanSuccess ==
    /\ (Returned /\ Len(prs) >= 1 /\ Cardinality(CleanScans) = Len(prs)) =>
          /\ Updates # {}
          /\ \A u \in Updates :
                /\ calls[u].arg.conclusion = checkRunConclusionSuccess
                /\ calls[u].arg.summary = "No issues detected"
                /\ calls[u].arg.text = "none"
          /\ IndicesOf("CreateComment") = {}
    /\ \A u \in Updates :
          calls[u].arg.summary = "No issues detected" =>
              /\ Len(prs) >= 1
              /\ \A p \in 1..Len(prs) : \E s \in CleanScans : s < u /\ calls[s].arg.pr = p

\* C5 witness: two pull requests, both scanned clean, Success written.
C5_Witness ==
    /\ Returned
    /\ Len(prs) = 2
    /\ Cardinality(CleanScans) = 2
    /\ checkRun.conclusion = checkRunConclusionSuccess

\* C6: an error of ListCommits, GetCommit or CheckFileContentFromQueries
\* aborts the evaluation: the only call after it is the update, which is
\* Failure without detail text; no reminder comment is posted and no later
\* commit or pull request is fetched or scanned.
C6_FetchErrorAborts ==
    \A i \in 1..Len(calls) :
        (calls[i].op \in FetchOps /\ ~calls[i].ok) =>
            /\ IndicesOf("CreateComment") = {}
            /\ Len(calls) <= i + 1
            /\ Len(calls) = i => /\ pc = "UpdateCheckRun"
                                 /\ pending.conclusion = checkRunConclusionFailure
                                 /\ pending.text = "none"
            /\ Len(calls) = i + 1 =>
                  /\ Returned
                  /\ calls[i + 1].op = "UpdateCheckRun"
                  /\ calls[i + 1].arg.status = checkRunStatusCompleted
                  /\ calls[i + 1].arg.conclusion = checkRunConclusionFailure
                  /\ calls[i + 1].arg.text = "none"

\* C6 witness: GetCommit failed on the first of two commits of the first of
\* two pull requests, and the handler returned.
C6_Witness ==
    /\ Returned
    /\ Len(prs) = 2
    /\ commits = 2
    /\ \E i \in Failed("GetCommit") : calls[i].arg = <<1, 1>>
    /\ Updates # {}

\* C7: every UpdateCheckRun call carries status completed and a conclusion in
\* {success, failure, skipped}; the check run only moves in_progress ->
\* completed, and once completed no later step changes its status or
\* conclusion.
C7_StatusForwardOnly ==
    /\ [](\A u \in Updates :
             /\ calls[u].arg.status = checkRunStatusCompleted
             /\ calls[u].arg.conclusion \in Conclusions)
    /\ [][checkRun.status = checkRunStatusCompleted => checkRun' = checkRun]_vars
    /\ [][checkRun.status = checkRunStatusInProgress =>
             checkRun'.status \in {checkRunStatusInProgress, checkRunStatusCompleted}]_vars

\* C7 witness: a check run that was created in progress and then completed.
C7_Witness ==
    /\ Created
    /\ checkRun.status = checkRunStatusCompleted
    /\ checkRun.conclusion \in Conclusions

\* C8: a failed UpdateCheckRun is not retried and is followed by no other
\* collaborator call; the handler returns and the check run stays in
\* progress.
C8_UpdateFailureOrphans ==
    \A u \in Failed("UpdateCheckRun") :
        /\ u = Len(calls)
        /\ Returned
        /\ Cardinality(Updates) = 1
        /\ checkRun.status = checkRunStatusInProgress

\* C8 witness: the terminal update failed after a scan found an unresolved
\* match.
C8_Witness ==
    /\ Failed("UpdateCheckRun") # {}
    /\ \E s \in Succeeded("CheckFileContentFromQueries") : calls[s].arg.unresolved

\* Every match of every result has Resolved = TRUE.
EveryMatchResolved(results) ==
    \A i \in 1..Len(results) :
        \A j \in 1..Len(results[i].Matches) : results[i].Matches[j].Resolved

Reverse(seq) == [i \in 1..Len(seq) |-> seq[Len(seq) + 1 - i]]
ReverseAll(results) ==
    Reverse([i \in 1..Len(results) |-> [Matches |-> Reverse(results[i].Matches)]])

\* C9: AllMatchesAreResolved returns true exactly when every match of every
\* result is resolved (so true for no results and for results without
\* matches), whatever the order of results and matches, and it leaves the
\* results it reads unchanged.
C9_AllMatchesAreResolved ==
    /\ [](answer # <<>> =>
            /\ answer = <<EveryMatchResolved(scanResults)>>
            /\ answer = <<AllMatchesAreResolved(ReverseAll(scanResults))>>)
    /\ [][pc = "AllMatchesAreResolved" => scanResults' = scanResults]_vars

\* C9 witness: the only unresolved match is the last match of the last of two
\* results, and the call returned false.
C9_Witness ==
    /\ answer = <<FALSE>>
    /\ Len(scanResults) = 2
    /\ Len(scanResults[1].Matches) = 2
    /\ Len(scanResults[2].Matches) = 2
    /\ scanResults[1].Matches[1].Resolved /\ scanResults[1].Matches[2].Resolved
    /\ scanResults[2].Matches[1].Resolved /\ ~scanResults[2].Matches[2].Resolved

\* The body names the commit of the result and each file the result matched.
Describes(body, result) ==
    /\ \E l \in 1..Len(body) : body[l] = <<"Introduced in", result.Commit>>
    /\ \A j \in 1..Len(result.FileMatches) :
          \E l \in 1..Len(body) : body[l] = <<"-", result.FileMatches[j].Path>>
    /\ \A j \in 1..Len(result.ContentMatches) :
          \E l \in 1..Len(body) : body[l] = <<"###", result.ContentMatches[j].Path>>

C11_OneIssuePerPush ==
    /\ Cardinality(IndicesOf("Issues.Create")) <= 1
    /\ Len(issues) <= 1
    /\ (Returned /\ Len(commitScanResults) > 0) =>
          /\ Cardinality(IndicesOf("Issues.Create")) = 1
          /\ \A c \in Succeeded("Issues.Create") : Len(issues) = 1
    /\ (Returned /\ Len(commitScanResults) = 0) => IndicesOf("Issues.Create") = {}

\* C11 witness: results for two commits, one Issues.Create call, one issue.
C11_Witness ==
    /\ Returned
    /\ Len(commitScanResults) >= 2
    /\ Cardinality(IndicesOf("Issues.Create")) = 1
    /\ Len(issues) = 1

\* Reading a decimal numeral back.
DigitValue(ch) == CHOOSE d \in 0..9 : DigitChars[d + 1] = ch
RECURSIVE Atoi(_)
Atoi(digits) ==
    IF Len(digits) = 0 THEN 0
    ELSE 10 * Atoi(SubSeq(digits, 1, Len(digits) - 1)) + DigitValue(digits[Len(digits)])

\* C12: the title of the tracking issue is the singular title for exactly one
\* result and, for N >= 2 results, the plural title with exactly N in it.
C12_TitlePluralized ==
    \A c \in IndicesOf("Issues.Create") :
        /\ Len(commitScanResults) = 1 =>
              calls[c].arg.title = <<"Potentially sensitive data found in a commit">>
        /\ Len(commitScanResults) >= 2 =>
              /\ Len(calls[c].arg.title) = 3
              /\ calls[c].arg.title[1] = "Potentially sensitive data found in "
              /\ Atoi(calls[c].arg.title[2]) = Len(commitScanResults)
              /\ calls[c].arg.title[3] = " commits"

\* C12 witness: an issue opened for two or more results, with the plural title.
C12_Witness ==
    /\ Len(issues) = 1
    /\ Len(commitScanResults) >= 2
    /\ Len(issues[1].title) = 3

\* C19: CreateCheckRun is the first call of the handler, issued once with
\* status in_progress and the head SHA of the suite; if it fails, the handler
\* returns without any other call and no check run exists.
C19_CreateCheckRunFirst ==
    /\ pc = "CreateCheckRun" => calls = <<>>
    /\ calls # <<>> =>
          /\ calls[1].op = "CreateCheckRun"
          /\ calls[1].arg.Status = checkRunStatusInProgress
          /\ calls[1].arg.HeadSHA = "CheckSuite.HeadSHA"
    /\ \A i \in IndicesOf("CreateCheckRun") : i = 1
    /\ Failed("CreateCheckRun") # {} =>
          /\ Len(calls) = 1
          /\ Returned
          /\ checkRun = NoCheckRun

\* C19 witness: CreateCheckRun failed for a suite that has pull requests.
C19_Witness ==
    /\ Failed("CreateCheckRun") # {}
    /\ Len(prs) >= 1
    /\ Returned

\* The queries of commit c of the pull request at prIdx, as positions.
QueriesOfCommit(c) ==
    {k \in 1..Len(fileQueries) : fileQueries[k].CommitSHA = <<prIdx, c>>}

\* C20: fileQueries holds the queries in the order of the commits and, within
\* a commit, in the order of its files: one query per file of the commit, all
\* queries of an earlier commit before those of a later one, each with the SHA
\* of its own commit; queries already in the list are never moved or dropped
\* while the list is built.
C20_QueriesInEvaluationOrder ==
    /\ [](/\ \A k \in 1..Len(fileQueries) :
                /\ fileQueries[k].CommitSHA[1] = prIdx
                /\ fileQueries[k].CommitSHA[2] \in 1..commits
                /\ fileQueries[k].CommitSHA[2] < commitIdx
          /\ \A k \in 1..Len(fileQueries) : \A l \in 1..Len(fileQueries) :
                k < l =>
                    \/ fileQueries[k].CommitSHA[2] < fileQueries[l].CommitSHA[2]
                    \/ /\ fileQueries[k].CommitSHA[2] = fileQueries[l].CommitSHA[2]
                       /\ fileQueries[k].FileName < fileQueries[l].FileName
          /\ fileQueries # <<>> =>
                /\ Cardinality(QueriesOfCommit(commitIdx - 1)) = Len(commitWithFiles)
                /\ \A f \in 1..Len(commitWithFiles) :
                      LET q == fileQueries[Len(fileQueries) - Len(commitWithFiles) + f]
                      IN /\ q.CommitSHA = <<prIdx, commitIdx - 1>>
                         /\ q.FileName = f)
    /\ [][(pc = "GetCommit" /\ pc' \in {"GetCommit", "CheckFileContentFromQueries"}) =>
             /\ Len(fileQueries') = Len(fileQueries) + Len(commitWithFiles')
             /\ SubSeq(fileQueries', 1, Len(fileQueries)) = fileQueries]_vars

\* C20 witness: the list handed to the scanner holds two queries of one
\* commit with two files.
C20_Witness ==
    /\ pc = "CheckFileContentFromQueries"
    /\ Len(fileQueries) = 2
    /\ Len(commitWithFiles) = 2
    /\ fileQueries[1].CommitSHA = fileQueries[2].CommitSHA

\* C13: when the deadline of the event went by during a collaborator call,
\* the evaluation is aborted and the check run is completed with conclusion
\* Failure.
C13_DeadlineAbortsWithFailure ==
    (Returned /\ deadlinePassed) =>
        /\ Updates # {}
        /\ \A u \in Updates : calls[u].arg.conclusion = checkRunConclusionFailure

\* The conclusion an invocation's own event calls for, from what that
\* invocation saw.
OwnConclusion(h) ==
    IF Len(h.prs) = 0 THEN checkRunConclusionSkipped
    ELSE IF h.saw \in {"error", "unresolved"} THEN checkRunConclusionFailure
    ELSE checkRunConclusionSuccess

\* C14: with two check-suite events handled concurrently, in every
\* interleaving an invocation updates only the check run its own
\* CreateCheckRun returned, the conclusion written to a check run is the one
\* its own event calls for, and each check run is completed exactly once
\* (by the one update its invocation issues before returning).
C14_EventsIndependent ==
    /\ \A id \in 1..Len(checkRuns) :
          /\ checkRuns[id].by \subseteq {checkRuns[id].owner}
          /\ checkRuns[id].completions <= 1
          /\ handlers[checkRuns[id].owner].checkRun = id
          /\ checkRuns[id].status = checkRunStatusCompleted =>
                /\ checkRuns[id].completions = 1
                /\ checkRuns[id].conclusion = OwnConclusion(handlers[checkRuns[id].owner])
          /\ checkRuns[id].status # checkRunStatusCompleted =>
                /\ checkRuns[id].status = checkRunStatusInProgress
                /\ checkRuns[id].completions = 0
    /\ \A i \in DOMAIN handlers :
          /\ handlers[i].sent <= 1
          /\ (handlers[i].pc = "done" /\ handlers[i].checkRun # 0) => handlers[i].sent = 1
          /\ handlers[i].checkRun = 0 => handlers[i].sent = 0

\* C14 witness: both invocations returned; the check run created first
\* belongs to the second invocation; one run is a success, the other a failure.
C14_Witness ==
    /\ Len(checkRuns) = 2
    /\ checkRuns[1].owner = 2
    /\ handlers[1].pc = "done" /\ handlers[2].pc = "done"
    /\ checkRuns[1].status = checkRunStatusCompleted
    /\ checkRuns[2].status = checkRunStatusCompleted
    /\ checkRuns[1].conclusion = checkRunConclusionSuccess
    /\ checkRuns[2].conclusion = checkRunConclusionFailure

FetchesOf(key) == Cardinality({n \in 1..Len(fetches) : fetches[n] = key})

\* C15: a commit file the platform reports as "removed" becomes a query with
\* Status FileRemoved; no FetchFileContent call is ever made for it, and every
\* Get of it returns "absent".
C15_RemovedNeverFetched ==
    \A f \in 1..Len(session) :
        session[f].reported = "removed" =>
            /\ session[f].query.Status = "FileRemoved"
            /\ FetchesOf(Key(session[f].query)) = 0
            /\ Key(session[f].query) \notin DOMAIN cache
            /\ \A w \in DOMAIN workers :
                  workers[w].q = f =>
                      workers[w].pc = "returned" /\ workers[w].result = "absent"

\* C15 witness: a removed file has been queried and answered "absent" while
\* another file of the same commit has been fetched.
C15_Witness ==
    /\ \E w \in DOMAIN workers :
          /\ workers[w].pc = "returned"
          /\ session[workers[w].q].reported = "removed"
          /\ workers[w].result = "absent"
    /\ Len(fetches) > 0

\* C16: within one session at most one FetchFileContent call is made per key,
\* in every interleaving of the workers: at any moment at most one worker is
\* fetching a key, a worker that asks for a key in flight waits for that
\* fetch, and every Get of a key that has returned carries the stored result.
C16_AtMostOneFetchPerKey ==
    /\ \A f \in 1..Len(session) : FetchesOf(Key(session[f].query)) <= 1
    /\ \A w1, w2 \in DOMAIN workers :
          (w1 # w2 /\ workers[w1].pc = "fetching" /\ workers[w2].pc = "fetching")
              => workers[w1].q # workers[w2].q
    /\ \A w \in DOMAIN workers :
          LET key == Key(session[workers[w].q].query) IN
          /\ workers[w].pc = "waiting" => FetchesOf(key) = 1
          /\ (workers[w].pc = "returned" /\ workers[w].result # "absent") =>
                FetchesOf(key) = 1 /\ cache[key] = workers[w].result

\* C16 witness: one worker is fetching a key, a second waits for that same
\* fetch, and a third is fetching a different key at the same time.
C16_Witness ==
    \E w1, w2, w3 \in DOMAIN workers :
        /\ workers[w1].pc = "fetching"
        /\ workers[w2].pc = "waiting"
        /\ workers[w2].q = workers[w1].q
        /\ workers[w3].pc = "fetching"
        /\ workers[w3].q # workers[w1].q
        /\ Len(fetches) = 2

\* C17: on the best-effort paths a scan error is logged and dropped: no
\* remediation is invoked for that event and the process keeps running.
C17_ScanErrorDropped ==
    \A n \in 1..Len(handled \o event) :
        (handled \o event)[n].scan = "error" =>
            /\ (handled \o event)[n].remediations = 0
            /\ alive

\* C18: an issue, issue-comment, pull-request, review or review-comment event
\* is handled once: no event is handled twice, its handler makes one scan
\* call, calls the remediation once exactly when the scan succeeded with
\* matches, and after a remediation error makes no further call.
C18_HandledExactlyOnce ==
    /\ \A m, n \in 1..Len(handled \o event) :
          (handled \o event)[m].id = (handled \o event)[n].id => m = n
    /\ \A n \in 1..Len(handled \o event) :
          LET e == (handled \o event)[n] IN
          e.kind # "push" =>
              /\ e.scans <= 1
              /\ e.pc \in {"returned", "exited", "Remediate"} => e.scans = 1
              /\ e.pc \in {"returned", "exited"} =>
                    e.remediations = (IF e.scan = "ok" /\ e.matches THEN 1 ELSE 0)
              /\ e.pc = "Remediate" =>
                    e.remediations = 0 /\ e.scan = "ok" /\ e.matches
              /\ e.remediation = "error" =>
                    e.pc \in {"returned", "exited"} /\ e.scans = 1 /\ e.remediations = 1

\* C18 witness: in the remediator.go version two events other than pushes
\* have returned, the first after a failed remediation, the second after a
\* successful one.
C18_Witness ==
    /\ source = "remediator.go"
    /\ Len(handled) = 2
    /\ handled[1].kind # "push" /\ handled[2].kind # "push"
    /\ handled[1].remediation = "error"
    /\ handled[2].remediation = "ok"
    /\ event = <<>>

FileStateTags == {"FileAdded", "FileModified", "FileRemoved"}

C22_OpenPullRequestIgnoresPush ==
    \A l \in IndicesOf("PullRequests.List") :
        calls[l].open > 0 =>
            /\ IndicesOf("CheckPush") = {}
            /\ IndicesOf("Issues.Create") = {}
            /\ issues = <<>>

\* C25: when PullRequests.List fails, HandlePush goes on as if the branch had
\* no open pull request: it makes its one CheckPush call, and when that call
\* returns results it makes its one Issues.Create call, whether or not the
\* branch has an open pull request.
C25_ListErrorIgnored ==
    Failed("PullRequests.List") # {} =>
        /\ pc # "PullRequests.List"
        /\ pc = "CheckPush" => IndicesOf("CheckPush") = {}
        /\ pc # "CheckPush" => Cardinality(IndicesOf("CheckPush")) = 1
        /\ pc = "HandleMatchesFromPush" =>
              Succeeded("CheckPush") # {} /\ Len(commitScanResults) > 0
        /\ Returned =>
              /\ (Succeeded("CheckPush") # {} /\ Len(CheckPush(push)) > 0) =>
                    /\ Cardinality(IndicesOf("Issues.Create")) = 1
                    /\ Succeeded("Issues.Create") # {} => Len(issues) = 1
              /\ (Failed("CheckPush") # {} \/ Len(CheckPush(push)) = 0) =>
                    IndicesOf("Issues.Create") = {}

\* C25 witness: the branch has an open pull request, the listing failed, the
\* push was scanned and a tracking issue was opened.
C25_Witness ==
    /\ Returned
    /\ \E l \in Failed("PullRequests.List") : calls[l].open > 0
    /\ Succeeded("CheckPush") # {}
    /\ Len(issues) = 1

\* The pull request a logged call was made for.
PrOf(i) ==
    IF calls[i].op = "GetCommit" THEN calls[i].arg[1]
    ELSE IF calls[i].op = "CheckFileContentFromQueries" /\ calls[i].ok THEN calls[i].arg.pr
    ELSE calls[i].arg

PrCalls == {i \in 1..Len(calls) : calls[i].op \in FetchOps \cup {"CreateComment"}}

\* Successful scans that returned results.
ScansWithResults ==
    {i \in Succeeded("CheckFileContentFromQueries") : calls[i].arg.results > 0}

\* C23: the pull requests of a check suite are processed in payload order;
\* the first pull request whose scan returns results ends the evaluation: no
\* ListCommits, GetCommit or scan call follows it, the conclusion is the one
\* that pull request's results (and its reminder) call for whatever the later
\* pull requests hold, and at most one reminder comment is posted.
C23_FirstPullRequestWithResultsDecides ==
    /\ \A i, j \in PrCalls : i < j => PrOf(i) <= PrOf(j)
    /\ \A j \in PrCalls :
          /\ PrOf(j) \in 1..Len(prs)
          /\ \A p \in 1..(PrOf(j) - 1) :
                \E i \in CleanScans : i < j /\ PrOf(i) = p
    /\ \A s \in ScansWithResults :
          /\ \A j \in IndicesOf("ListCommits") \cup IndicesOf("GetCommit")
                      \cup IndicesOf("CheckFileContentFromQueries") : j <= s
          /\ \A j \in PrCalls : PrOf(j) <= PrOf(s)
          /\ \A c \in IndicesOf("CreateComment") : c = s + 1 /\ PrOf(c) = PrOf(s)
          /\ \A u \in Updates :
                calls[u].arg.conclusion =
                    IF calls[s].arg.unresolved \/ Failed("CreateComment") # {}
                    THEN checkRunConclusionFailure
                    ELSE checkRunConclusionSuccess
    /\ Cardinality(IndicesOf("CreateComment")) <= 1

\* C23 witness: two pull requests; the scan of the first returned results
\* whose matches are all resolved, the second holds an unresolved match; the
\* handler returned after one reminder and a success, with no call for the
\* second pull request.
C23_Witness ==
    /\ Returned
    /\ Len(prs) = 2
    /\ prs[2]
    /\ \E s \in ScansWithResults : PrOf(s) = 1
    /\ Cardinality(Succeeded("CreateComment")) = 1
    /\ \E u \in Succeeded("UpdateCheckRun") :
          calls[u].arg.conclusion = checkRunConclusionSuccess

\* C24: when the matches of a pull request are all resolved and posting the
\* reminder fails, the one update the handler issues is a completion with
\* conclusion Failure and no text, and no Success update is written, before
\* or after it.
C24_ReminderFailureMeansFailure ==
    Failed("CreateComment") # {} =>
        /\ \A c \in Failed("CreateComment") : c > 1 /\ c - 1 \in ResolvedScans
        /\ pc \in {"UpdateCheckRun", "done"}
        /\ pc = "UpdateCheckRun" =>
              /\ Updates = {}
              /\ pending = handleFailure("Failed to reply to Pull Request")
        /\ Returned => Cardinality(Updates) = 1
        /\ \A u \in Updates :
              /\ u - 1 \in Failed("CreateComment")
              /\ calls[u].arg.status = checkRunStatusCompleted
              /\ calls[u].arg.conclusion = checkRunConclusionFailure
              /\ calls[u].arg.text = "none"
        /\ checkRun.conclusion # checkRunConclusionSuccess
        /\ Succeeded("UpdateCheckRun") # {} =>
              checkRun = [status |-> checkRunStatusCompleted,
                          conclusion |-> checkRunConclusionFailure]

\* C24 witness: every match resolved, the reminder could not be posted, and
\* the check run is completed as a failure.
C24_Witness ==
    /\ Returned
    /\ ResolvedScans # {}
    /\ Failed("CreateComment") # {}
    /\ checkRun.status = checkRunStatusCompleted
    /\ checkRun.conclusion = checkRunConclusionFailure

====
